---------------------------- MODULE Spec2Model ----------------------------
(***************************************************************************)
(* Model of web_agent.py: the soil/crop advisory server.                   *)
(*                                                                         *)
(* Numbers.  Python floats are modelled as exact rationals n/d in lowest   *)
(* terms, extended with the IEEE values float() can produce from a request *)
(* ("nan", "inf") and that arithmetic propagates.  Binary rounding error   *)
(* of finite doubles is not modelled.                                      *)
(*                                                                         *)
(* Strings.  A string that the code splits, strips, lower-cases or         *)
(* searches is a sequence of atoms: a word, a blank " " or a comma ",".    *)
(* The Arabic crop names are written in Latin transliteration:             *)
(*   tamr = dates, inab = grapes, tamatim = tomato, batata = potato,       *)
(*   qamh_salb = durum wheat, shair = barley, zaytun = olive,              *)
(*   buqoliyat = legumes, battikh = watermelon.                            *)
(***************************************************************************)
EXTENDS Integers, Sequences, FiniteSets

VARIABLES
    GLOBAL_HISTORICAL_ANALYSIS, \* the process-wide slot (NoneVal or a record)
    request,                    \* the request being answered (NoneVal when idle)
    response,                   \* the response in flight (NoneVal when idle)
    lastOk,                     \* history: body of the latest analyze_historical answered 200
    seen                        \* history: one analyze_soil exchange kept by a client

vars == <<GLOBAL_HISTORICAL_ANALYSIS, request, response, lastOk, seen>>

NoneVal == [t |-> "none"]

---------------------------------------------------------------------------
(* Extended rational arithmetic (Python float operations)                  *)

Abs(x) == IF x < 0 THEN -x ELSE x

RECURSIVE Gcd(_, _)
Gcd(a, b) == IF b = 0 THEN a ELSE Gcd(b, a % b)

Sign(x) == IF x > 0 THEN 1 ELSE IF x < 0 THEN -1 ELSE 0

Fin(n, d) ==
    LET g == Gcd(Abs(n), Abs(d))
        s == IF d < 0 THEN -1 ELSE 1
    IN  [k |-> "fin", n |-> (s * n) \div g, d |-> (s * d) \div g]

NaN == [k |-> "nan", n |-> 0, d |-> 1]
Inf(s) == [k |-> "inf", n |-> s, d |-> 1]

IsNaN(x) == x.k = "nan"
IsInf(x) == x.k = "inf"
IsFin(x) == x.k = "fin"
IsZero(x) == x.k = "fin" /\ x.n = 0
SignOf(x) == Sign(x.n)

\* x * y
Mul(x, y) ==
    IF IsNaN(x) \/ IsNaN(y) THEN NaN
    ELSE IF IsInf(x) \/ IsInf(y)
         THEN IF IsZero(x) \/ IsZero(y) THEN NaN ELSE Inf(SignOf(x) * SignOf(y))
    ELSE LET g1 == Gcd(Abs(x.n), y.d)
             g2 == Gcd(Abs(y.n), x.d)
         IN  Fin((x.n \div g1) * (y.n \div g2), (x.d \div g2) * (y.d \div g1))

\* x / y for y # 0 (a zero divisor raises ZeroDivisionError, see DivRaises)
Div(x, y) ==
    IF IsNaN(x) \/ IsNaN(y) THEN NaN
    ELSE IF IsInf(x) THEN (IF IsInf(y) THEN NaN ELSE Inf(SignOf(x) * SignOf(y)))
    ELSE IF IsInf(y) THEN Fin(0, 1)
    ELSE Mul(x, Fin(y.d, y.n))

DivRaises(x, y) == IsZero(y)

\* x + y
Add(x, y) ==
    IF IsNaN(x) \/ IsNaN(y) THEN NaN
    ELSE IF IsInf(x) THEN (IF IsInf(y) /\ y.n # x.n THEN NaN ELSE x)
    ELSE IF IsInf(y) THEN y
    ELSE LET g == Gcd(x.d, y.d)
         IN  Fin(x.n * (y.d \div g) + y.n * (x.d \div g), (x.d \div g) * y.d)

\* x < y (False whenever a NaN is involved)
Lt(x, y) ==
    IF IsNaN(x) \/ IsNaN(y) THEN FALSE
    ELSE IF IsInf(x) THEN x.n < 0 /\ ~(IsInf(y) /\ y.n < 0)
    ELSE IF IsInf(y) THEN y.n > 0
    ELSE x.n * y.d < y.n * x.d

Gt(x, y) == Lt(y, x)

\* x <= y (False whenever a NaN is involved)
Le(x, y) == ~IsNaN(x) /\ ~IsNaN(y) /\ ~Lt(y, x)

Int2Num(i) == Fin(i, 1)
Dec(n, d) == Fin(n, d)

\* Python max(a, b): b if b > a else a
PyMax(a, b) == IF Gt(b, a) THEN b ELSE a

\* Python min(a, b): b if b < a else a
PyMin(a, b) == IF Lt(b, a) THEN b ELSE a

\* round(x, digits) of a finite x, as an integer count of 10^-digits
\* (round-half-even on the exact value)
RoundScaled(x, scale) ==
    LET t == x.n * scale
        q == t \div x.d
        r == t % x.d
    IN  IF 2 * r > x.d THEN q + 1
        ELSE IF 2 * r < x.d THEN q
        ELSE IF q % 2 = 0 THEN q ELSE q + 1


---------------------------------------------------------------------------
(* Strings as sequences of atoms                                           *)

\* str.lower() on one atom; the Arabic crop names have no upper case
LowerAtom(a) ==
    CASE a = "RED" -> "red"
      [] a = "Black" -> "black"
      [] a = "FIELD" -> "field"
      [] OTHER -> a

\* str.lower()
Lower(s) == [i \in 1..Len(s) |-> LowerAtom(s[i])]

\* str.strip(): drop leading and trailing blanks
RECURSIVE Strip(_)
Strip(s) ==
    IF s = <<>> THEN s
    ELSE IF Head(s) = " " THEN Strip(Tail(s))
    ELSE IF s[Len(s)] = " " THEN Strip(SubSeq(s, 1, Len(s) - 1))
    ELSE s

\* str.split(sep): always at least one (possibly empty) piece
RECURSIVE Split(_, _)
Split(s, sep) ==
    IF \A i \in 1..Len(s) : s[i] # sep THEN <<s>>
    ELSE LET i == CHOOSE i \in 1..Len(s) :
                      s[i] = sep /\ \A j \in 1..(i - 1) : s[j] # sep
         IN  <<SubSeq(s, 1, i - 1)>> \o Split(SubSeq(s, i + 1, Len(s)), sep)

\* "needle in s" at the granularity of atoms
Contains(s, needle) == \E i \in 1..Len(s) : s[i] = needle

SelectSeqNonEmpty(ss) == SelectSeq(ss, LAMBDA c : Strip(c) # <<>>)

SeqToSet(ss) == {ss[i] : i \in 1..Len(ss)}

---------------------------------------------------------------------------
(* Constants and data                                                      *)

CLASS_NAMES == <<"Alluvial_Soil", "Black_Soil", "Laterite_Soil", "Red_Soil", "Yellow_Soil">>

\* iteration order of the CROP_PROPERTIES dict
CropOrder ==
    <<"tamr", "inab", "tamatim", "batata", "qamh_salb", "shair", "zaytun", "buqoliyat", "battikh">>

Crops == SeqToSet(CropOrder)

\* crop -> <<water_need, cost_ratio, profit_ratio, yield_kg_per_ha>>
CROP_PROPERTIES ==
    [c \in Crops |->
        CASE c = "tamr"      -> <<Dec(4, 10), Dec(7, 10), Dec(9, 10), 8000>>
          [] c = "inab"      -> <<Dec(6, 10), Dec(5, 10), Dec(7, 10), 15000>>
          [] c = "tamatim"   -> <<Dec(9, 10), Dec(6, 10), Dec(8, 10), 40000>>
          [] c = "batata"    -> <<Dec(7, 10), Dec(5, 10), Dec(6, 10), 25000>>
          [] c = "qamh_salb" -> <<Dec(5, 10), Dec(3, 10), Dec(5, 10), 3000>>
          [] c = "shair"     -> <<Dec(4, 10), Dec(3, 10), Dec(4, 10), 3500>>
          [] c = "zaytun"    -> <<Dec(3, 10), Dec(7, 10), Dec(8, 10), 10000>>
          [] c = "buqoliyat" -> <<Dec(5, 10), Dec(4, 10), Dec(6, 10), 1500>>
          [] c = "battikh"   -> <<Dec(7, 10), Dec(5, 10), Dec(7, 10), 30000>>]

\* the preference lookup table (keys in English gloss)
PREF_OPTIONS_MAP ==
    [p \in {"increase financial profits", "low water consumption",
            "improve performance efficiency", "nothing (general criteria)"} |->
        CASE p = "increase financial profits"     -> "high_profit"
          [] p = "low water consumption"          -> "low_water"
          [] p = "improve performance efficiency" -> "improve_efficiency"
          [] p = "nothing (general criteria)"     -> "none"]

\* SOIL_BONUS.get(soil_type, {}).get(crop, 1.0)
SOIL_BONUS(soil_type, crop) ==
    CASE soil_type = "Alluvial_Soil" /\ crop = "tamr"      -> Dec(120, 100)
      [] soil_type = "Alluvial_Soil" /\ crop = "qamh_salb" -> Dec(110, 100)
      [] soil_type = "Alluvial_Soil" /\ crop = "tamatim"   -> Dec(105, 100)
      [] soil_type = "Black_Soil" /\ crop = "qamh_salb"    -> Dec(115, 100)
      [] soil_type = "Black_Soil" /\ crop = "batata"       -> Dec(110, 100)
      [] soil_type = "Black_Soil" /\ crop = "battikh"      -> Dec(100, 100)
      [] soil_type = "Laterite_Soil" /\ crop = "zaytun"    -> Dec(120, 100)
      [] soil_type = "Laterite_Soil" /\ crop = "inab"      -> Dec(110, 100)
      [] soil_type = "Laterite_Soil" /\ crop = "tamr"      -> Dec(100, 100)
      [] soil_type = "Red_Soil" /\ crop = "batata"         -> Dec(105, 100)
      [] soil_type = "Red_Soil" /\ crop = "tamatim"        -> Dec(110, 100)
      [] soil_type = "Red_Soil" /\ crop = "qamh_salb"      -> Dec(100, 100)
      [] soil_type = "Yellow_Soil" /\ crop = "buqoliyat"   -> Dec(115, 100)
      [] soil_type = "Yellow_Soil" /\ crop = "shair"       -> Dec(110, 100)
      [] soil_type = "Yellow_Soil" /\ crop = "inab"        -> Dec(100, 100)
      [] OTHER -> Dec(1, 1)

One == Int2Num(1)
Zero == Int2Num(0)
Neg(x) == Mul(Int2Num(-1), x)

---------------------------------------------------------------------------
(* predict_soil_type                                                       *)

\* the set of labels predict_soil_type(image_path) can return
predict_soil_type(image_path) ==
    IF image_path = <<>> THEN SeqToSet(CLASS_NAMES)
    ELSE LET name_lower == Lower(image_path)
         IN  IF Contains(name_lower, "red") THEN {"Red_Soil"}
             ELSE IF Contains(name_lower, "black") THEN {"Black_Soil"}
             ELSE IF Contains(name_lower, "alluvial") THEN {"Alluvial_Soil"}
             ELSE IF Contains(name_lower, "yellow") THEN {"Yellow_Soil"}
             ELSE IF Contains(name_lower, "laterite") THEN {"Laterite_Soil"}
             ELSE SeqToSet(CLASS_NAMES)

---------------------------------------------------------------------------
(* determine_suitability                                                   *)

\* variant: the kept pieces are lower-cased but not stripped
ParsePrevCrops_NoStrip(prev_crops_str) ==
    LET kept == SelectSeqNonEmpty(Split(prev_crops_str, ","))
    IN  [i \in 1..Len(kept) |-> Lower(kept[i])]

\* line 84: the parsed prior-crop list
ParsePrevCrops(prev_crops_str) ==
    LET kept == SelectSeqNonEmpty(Split(prev_crops_str, ","))
    IN  [i \in 1..Len(kept) |-> Lower(Strip(kept[i]))]

\* line 97: the weighted sum
BaseScore(crop) ==
    LET prop == CROP_PROPERTIES[crop]
        water_need == prop[1]
        cost_ratio == prop[2]
        profit_ratio == prop[3]
    IN  Add(Add(Mul(profit_ratio, Dec(4, 10)),
                Mul(Add(One, Neg(water_need)), Dec(3, 10))),
            Mul(Add(One, Neg(cost_ratio)), Dec(3, 10)))

\* variant: the efficiency adjustment is an "if" of its own, applied whenever
\* the slot holds an analysis
ApplyPreference_AlwaysEfficiency(base_score, crop, farmer_pref, historical_analysis) ==
    LET prop == CROP_PROPERTIES[crop]
        water_need == prop[1]
        profit_ratio == prop[3]
        adjusted ==
            IF farmer_pref = <<"high_profit">>
            THEN Mul(base_score, Add(One, Mul(profit_ratio, Dec(3, 10))))
            ELSE IF farmer_pref = <<"low_water">>
            THEN Mul(base_score, Add(One, Mul(Add(One, Neg(water_need)), Dec(3, 10))))
            ELSE base_score
    IN  IF historical_analysis # NoneVal
        THEN Mul(adjusted,
                 Add(One, Mul(historical_analysis.water_efficiency_ratio, Dec(5, 100))))
        ELSE adjusted

\* lines 100-107: the preference adjustment
ApplyPreference(base_score, crop, farmer_pref, historical_analysis) ==
    LET prop == CROP_PROPERTIES[crop]
        water_need == prop[1]
        profit_ratio == prop[3]
    IN  IF farmer_pref = <<"high_profit">>
        THEN Mul(base_score, Add(One, Mul(profit_ratio, Dec(3, 10))))
        ELSE IF farmer_pref = <<"low_water">>
        THEN Mul(base_score, Add(One, Mul(Add(One, Neg(water_need)), Dec(3, 10))))
        ELSE IF farmer_pref = <<"improve_efficiency">> /\ historical_analysis # NoneVal
        THEN Mul(base_score,
                 Add(One, Mul(historical_analysis.water_efficiency_ratio, Dec(5, 100))))
        ELSE base_score

\* lines 109-110: the rotation penalty
ApplyRotation(base_score, crop, prev_crops) ==
    IF Lower(<<crop>>) \in SeqToSet(prev_crops)
    THEN Mul(base_score, Dec(8, 10))
    ELSE base_score

\* variant: the two names are compared without .strip()
ApplyDesired_NoStrip(base_score, crop, desired_crop) ==
    IF desired_crop # <<>> /\ Lower(<<crop>>) = Lower(desired_crop)
    THEN Mul(base_score, Dec(13, 10))
    ELSE base_score

\* lines 112-113: the desired-crop bonus
ApplyDesired(base_score, crop, desired_crop) ==
    IF desired_crop # <<>> /\ Strip(Lower(<<crop>>)) = Strip(Lower(desired_crop))
    THEN Mul(base_score, Dec(13, 10))
    ELSE base_score

\* variant: the upper clamp is missing, max(0, base_score * 80 + 10)
FinalScore_NoUpperClamp(base_score) ==
    PyMax(Zero, Add(Mul(base_score, Int2Num(80)), Int2Num(10)))

\* line 115: min(100, max(0, base_score * 80 + 10))
FinalScore(base_score) ==
    PyMin(Int2Num(100), PyMax(Zero, Add(Mul(base_score, Int2Num(80)), Int2Num(10))))

\* base_score of one crop just before line 115
AdjustedBase(crop, soil_type, prev_crops, farmer_pref, desired_crop, historical_analysis) ==
    ApplyDesired(
        ApplyRotation(
            ApplyPreference(Mul(BaseScore(crop), SOIL_BONUS(soil_type, crop)),
                            crop, farmer_pref, historical_analysis),
            crop, prev_crops),
        crop, desired_crop)

\* round(final_score, 1) of one crop, in tenths (868 stands for 86.8)
CropScore(crop, soil_type, prev_crops, farmer_pref, desired_crop, historical_analysis) ==
    RoundScaled(
        FinalScore(AdjustedBase(crop, soil_type, prev_crops, farmer_pref,
                                desired_crop, historical_analysis)),
        10)

\* variant: a descending sort that puts an entry before the entries of equal
\* score
RECURSIVE SortByScoreDesc_Unstable(_)
SortByScoreDesc_Unstable(entries) ==
    IF entries = <<>> THEN <<>>
    ELSE LET sorted == SortByScoreDesc_Unstable(SubSeq(entries, 1, Len(entries) - 1))
             e == entries[Len(entries)]
             pos == Cardinality({i \in 1..Len(sorted) : sorted[i].score > e.score})
         IN  SubSeq(sorted, 1, pos) \o <<e>> \o SubSeq(sorted, pos + 1, Len(sorted))

\* line 118: list.sort(key=score, reverse=True), a stable sort: each entry is
\* inserted after the entries whose score is at least its own
RECURSIVE SortByScoreDesc(_)
SortByScoreDesc(entries) ==
    IF entries = <<>> THEN <<>>
    ELSE LET sorted == SortByScoreDesc(SubSeq(entries, 1, Len(entries) - 1))
             e == entries[Len(entries)]
             pos == Cardinality({i \in 1..Len(sorted) : sorted[i].score >= e.score})
         IN  SubSeq(sorted, 1, pos) \o <<e>> \o SubSeq(sorted, pos + 1, Len(sorted))

determine_suitability(soil_type, area_sqm, prev_crops_str, farmer_pref, desired_crop, historical_analysis) ==
    LET prev_crops == ParsePrevCrops(prev_crops_str)
        suitability_scores ==
            [i \in 1..Len(CropOrder) |->
                [crop |-> CropOrder[i],
                 score |-> CropScore(CropOrder[i], soil_type, prev_crops, farmer_pref,
                                     desired_crop, historical_analysis)]]
    IN  SortByScoreDesc(suitability_scores)

---------------------------------------------------------------------------
(* Request bodies: a JSON field is absent, a number or a string            *)

Absent == [t |-> "absent"]
NumF(x) == [t |-> "num", num |-> x]
Str(atoms) == [t |-> "str", str |-> atoms]
List(items) == [t |-> "list", list |-> items]

\* data.get(key, default) for a key holding a string
GetStr(field, default) == IF field.t = "absent" THEN default ELSE field.str

\* data.get(key, default) for a key holding a list
GetList(field, default) == IF field.t = "absent" THEN default ELSE field.list

\* float(v) raises ValueError on a string that is no float literal
FloatRaises(field) == field.t = "str" /\ field.str \notin {<<"nan">>, <<"inf">>}

\* float(data.get(key, default))
PyFloat(field, default) ==
    IF field.t = "absent" THEN Int2Num(default)
    ELSE IF field.t = "num" THEN field.num
    ELSE IF field.str = <<"nan">> THEN NaN
    ELSE Inf(1)

\* format(x, ".<digits>f"): the rounded value as a count of 10^-digits, or nan/inf
FormatF(x, scale) ==
    IF IsFin(x) THEN [k |-> "fin", v |-> RoundScaled(x, scale)] ELSE [k |-> x.k, v |-> x.n]

ErrorResponse(status, text) == [status |-> status, body |-> [error |-> text]]

---------------------------------------------------------------------------
(* generate_detailed_report                                                *)

BASE_COSTS_PER_HA == <<50000, 70000, 40000, 20000, 120000>>

PRICE_PER_KG_DZD ==
    [c \in Crops |->
        CASE c = "tamr" -> 450 [] c = "inab" -> 200 [] c = "tamatim" -> 80
          [] c = "batata" -> 60 [] c = "qamh_salb" -> 50 [] c = "shair" -> 40
          [] c = "zaytun" -> 350 [] c = "buqoliyat" -> 150 [] c = "battikh" -> 70]

WATER_NEED_M3_HA ==
    [c \in Crops |->
        CASE c = "tamr" -> 5000 [] c = "inab" -> 6500 [] c = "tamatim" -> 9000
          [] c = "batata" -> 7500 [] c = "qamh_salb" -> 4500 [] c = "shair" -> 4000
          [] c = "zaytun" -> 3000 [] c = "buqoliyat" -> 5500 [] c = "battikh" -> 7000]

RECURSIVE SumSeq(_)
SumSeq(ss) == IF ss = <<>> THEN 0 ELSE Head(ss) + SumSeq(Tail(ss))

\* line 124: next((r['score'] for r in recommendations if r['crop'] == selected_crop), 0.0)
CurrentScore(recommendations, selected_crop) ==
    LET hits == SelectSeq(recommendations, LAMBDA r : <<r.crop>> = selected_crop)
    IN  IF hits = <<>> THEN 0 ELSE hits[1].score

\* lines 141-145
SoilTypeAr(soil_type) ==
    IF soil_type.t = "str" /\ Len(soil_type.str) = 1
          /\ soil_type.str[1] \in SeqToSet(CLASS_NAMES)
    THEN soil_type.str[1] ELSE "unspecified"

\* the value returned: the error text when the crop has no catalog entry,
\* else the figures the report template embeds (the timestamp is left out)
generate_detailed_report(selected_crop, area_sqm, soil_type, location_name, recommendations, historical_analysis) ==
    IF ~(Len(selected_crop) = 1 /\ selected_crop[1] \in Crops)
    THEN [kind |-> "error_text"]
    ELSE LET crop == selected_crop[1]
             area_ha == Div(area_sqm, Int2Num(10000))
             total_cost == Mul(Int2Num(SumSeq(BASE_COSTS_PER_HA)), area_ha)
             expected_yield == Mul(Int2Num(CROP_PROPERTIES[crop][4]), area_ha)
             total_revenue == Mul(expected_yield, Int2Num(PRICE_PER_KG_DZD[crop]))
             net_profit == Add(total_revenue, Neg(total_cost))
             water_need_m3 == Mul(Int2Num(WATER_NEED_M3_HA[crop]), area_ha)
         IN  [kind |-> "report",
              location_name |-> location_name,
              soil_type_ar |-> SoilTypeAr(soil_type),
              selected_crop |-> crop,
              current_score |-> CurrentScore(recommendations, selected_crop),
              area_ha |-> FormatF(area_ha, 100),
              total_revenue |-> FormatF(total_revenue, 1),
              total_cost |-> FormatF(total_cost, 1),
              net_profit |-> FormatF(net_profit, 1),
              area_sqm |-> FormatF(area_sqm, 1),
              expected_yield |-> FormatF(expected_yield, 1),
              water_need_m3 |-> FormatF(water_need_m3, 1)]

---------------------------------------------------------------------------
(* The endpoints.  A handler runs when no response is in flight and leaves *)
(* its response in flight; Deliver hands it to the client.                 *)

Idle == response = NoneVal

\* POST /api/analyze_soil
api_analyze_soil(data) ==
    /\ Idle
    /\ request' = [endpoint |-> "analyze_soil", data |-> data]
    /\ IF FloatRaises(data.area_sqm)
       THEN response' = ErrorResponse(500, "soil analysis failed")
       ELSE \E soil_type \in predict_soil_type(GetStr(data.image_path, <<>>)) :
               response' =
                   [status |-> 200,
                    body |-> [soil_type |-> soil_type,
                              recommendations |->
                                  determine_suitability(
                                      soil_type,
                                      PyFloat(data.area_sqm, 10000),
                                      GetStr(data.prev_crops_str, <<>>),
                                      GetStr(data.farmer_pref, <<"none">>),
                                      GetStr(data.desired_crop, <<>>),
                                      GLOBAL_HISTORICAL_ANALYSIS)]]
    /\ UNCHANGED <<GLOBAL_HISTORICAL_ANALYSIS, lastOk, seen>>

\* variant: only "not selected_crop" is tested
CropRejected_EmptyOnly(selected_crop) ==
    \/ selected_crop.t = "absent"
    \/ selected_crop.str = <<>>

\* line 224: not selected_crop or selected_crop not in CROP_PROPERTIES
CropRejected(selected_crop) ==
    \/ selected_crop.t = "absent"
    \/ selected_crop.str = <<>>
    \/ ~(Len(selected_crop.str) = 1 /\ selected_crop.str[1] \in DOMAIN CROP_PROPERTIES)

\* POST /api/generate_plan
api_generate_plan(data) ==
    /\ Idle
    /\ request' = [endpoint |-> "generate_plan", data |-> data]
    /\ IF CropRejected(data.selected_crop)
       THEN response' = ErrorResponse(400, "crop not selected or unknown")
       ELSE IF FloatRaises(data.area_sqm)
       THEN response' = ErrorResponse(500, "plan generation failed")
       ELSE response' =
               [status |-> 200,
                body |-> [report |->
                    generate_detailed_report(
                        GetStr(data.selected_crop, <<>>),
                        PyFloat(data.area_sqm, 10000),
                        data.soil_type,
                        data.location_name,
                        GetList(data.recommendations, <<>>),
                        GLOBAL_HISTORICAL_ANALYSIS)]]
    /\ UNCHANGED <<GLOBAL_HISTORICAL_ANALYSIS, lastOk, seen>>

\* variant: the new ratio is added to the ratio already in the slot
HistoricalAnalysis_Accumulate(data, actual_yield, area_sqm, actual_water) ==
    LET area_ha == Div(area_sqm, Int2Num(10000))
        fresh == Div(Div(actual_yield, area_ha), actual_water)
        water_efficiency_ratio ==
            IF GLOBAL_HISTORICAL_ANALYSIS = NoneVal THEN fresh
            ELSE Add(fresh, GLOBAL_HISTORICAL_ANALYSIS.water_efficiency_ratio)
    IN  [previous_crop |-> data.crop,
         water_efficiency_ratio |-> water_efficiency_ratio,
         message |-> [crop |-> data.crop, ratio |-> FormatF(water_efficiency_ratio, 100)]]

\* lines 255-265: the record stored in the slot
HistoricalAnalysis(data, actual_yield, area_sqm, actual_water) ==
    LET area_ha == Div(area_sqm, Int2Num(10000))
        water_efficiency_ratio == Div(Div(actual_yield, area_ha), actual_water)
    IN  [previous_crop |-> data.crop,
         water_efficiency_ratio |-> water_efficiency_ratio,
         message |-> [crop |-> data.crop, ratio |-> FormatF(water_efficiency_ratio, 100)]]

\* variant: the yield test is written "< 0", so a yield of 0 passes
ValidationError_YieldStrict(actual_yield, actual_water) ==
    IF Le(actual_water, Zero) THEN 1
    ELSE IF Lt(actual_yield, Zero) THEN 2
    ELSE 0

\* lines 250-253: the validation, 0 when the inputs pass
ValidationError(actual_yield, actual_water) ==
    IF Le(actual_water, Zero) THEN 1
    ELSE IF Le(actual_yield, Zero) THEN 2
    ELSE 0

\* POST /api/analyze_historical
api_analyze_historical(data) ==
    /\ Idle
    /\ request' = [endpoint |-> "analyze_historical", data |-> data]
    /\ IF FloatRaises(data.actual_yield) \/ FloatRaises(data.area_sqm)
             \/ FloatRaises(data.actual_water)
       THEN /\ response' = ErrorResponse(500, "historical analysis failed")
            /\ UNCHANGED <<GLOBAL_HISTORICAL_ANALYSIS, lastOk>>
       ELSE LET actual_yield == PyFloat(data.actual_yield, 0)
                area_sqm == PyFloat(data.area_sqm, 10000)
                actual_water == PyFloat(data.actual_water, 1)
            IN  IF ValidationError(actual_yield, actual_water) = 1
                THEN /\ response' = ErrorResponse(400, "water must be positive")
                     /\ UNCHANGED <<GLOBAL_HISTORICAL_ANALYSIS, lastOk>>
                ELSE IF ValidationError(actual_yield, actual_water) = 2
                THEN /\ response' = ErrorResponse(400, "yield must be positive")
                     /\ UNCHANGED <<GLOBAL_HISTORICAL_ANALYSIS, lastOk>>
                ELSE IF DivRaises(actual_yield, Div(area_sqm, Int2Num(10000)))
                THEN /\ response' = ErrorResponse(500, "historical analysis failed")
                     /\ UNCHANGED <<GLOBAL_HISTORICAL_ANALYSIS, lastOk>>
                ELSE /\ GLOBAL_HISTORICAL_ANALYSIS' =
                            HistoricalAnalysis(data, actual_yield, area_sqm, actual_water)
                     /\ response' =
                            [status |-> 200,
                             body |-> [message |-> GLOBAL_HISTORICAL_ANALYSIS'.message,
                                       analysis |-> GLOBAL_HISTORICAL_ANALYSIS']]
                     /\ lastOk' = data
    /\ UNCHANGED seen

\* the response leaves the server
Deliver ==
    /\ ~Idle
    /\ request' = NoneVal
    /\ response' = NoneVal
    /\ UNCHANGED <<GLOBAL_HISTORICAL_ANALYSIS, lastOk, seen>>

\* a client keeps the analyze_soil exchange it is being answered
Observe ==
    /\ ~Idle
    /\ request.endpoint = "analyze_soil"
    /\ seen' = [request |-> request, response |-> response,
                slot |-> GLOBAL_HISTORICAL_ANALYSIS]
    /\ request' = NoneVal
    /\ response' = NoneVal
    /\ UNCHANGED <<GLOBAL_HISTORICAL_ANALYSIS, lastOk>>

---------------------------------------------------------------------------
(* Request bodies explored                                                 *)

\* actual_yield takes the values 0, 5000, ..., MaxYieldUnits * 5000
MaxYieldUnits == 2

AreaFields == {Absent, NumF(Int2Num(0)), NumF(Int2Num(-10000)), Str(<<"abc">>)}

HistoricalBodies ==
    [actual_yield : {Absent, Str(<<"abc">>), Str(<<"nan">>)}
                      \cup {NumF(Int2Num(k * 5000)) : k \in 0..MaxYieldUnits},
     area_sqm     : AreaFields,
     actual_water : {Absent, NumF(Int2Num(0)), NumF(Int2Num(1000)), Str(<<"abc">>)},
     crop         : {Absent, Str(<<"tamr">>)}]

ImagePaths == {Absent, Str(<<"RED", "_", "FIELD", ".jpg">>)}

PrefFields ==
    {Absent, Str(<<"high_profit">>), Str(<<"low_water">>), Str(<<"improve_efficiency">>),
     Str(<<"increase financial profits">>)}

\* prior-crop list and desired crop: every catalog crop alone, and strings
\* with blanks, empty pieces and a second crop
CropTexts ==
    {[prev_crops_str |-> p, desired_crop |-> d] :
        p \in {Str(<<>>)} \cup {Str(<<c>>) : c \in Crops},
        d \in {Str(<<>>)} \cup {Str(<<c>>) : c \in Crops}}

FocusCropTexts ==
    {t \in CropTexts :
        \/ t.prev_crops_str = Str(<<>>)
        \/ t.desired_crop = Str(<<>>)
        \/ t.prev_crops_str = t.desired_crop}
    \cup
    {[prev_crops_str |-> p, desired_crop |-> d] :
        p \in {Absent, Str(<<" ", "tamr", " ", ",", ",", "inab">>)},
        d \in {Absent, Str(<<" ", "tamr", " ">>), Str(<<"RED">>)}}

SoilBodies ==
    {[image_path |-> i, area_sqm |-> a, prev_crops_str |-> t.prev_crops_str,
      farmer_pref |-> f, desired_crop |-> t.desired_crop] :
        i \in ImagePaths, a \in {Absent}, f \in PrefFields, t \in FocusCropTexts}
    \cup
    {[image_path |-> Absent, area_sqm |-> a, prev_crops_str |-> Absent,
      farmer_pref |-> Absent, desired_crop |-> Absent] :
        a \in {NumF(Int2Num(0)), Str(<<"abc">>), Str(<<"nan">>)}}

SampleRecommendations == <<[crop |-> "tamr", score |-> 705], [crop |-> "inab", score |-> 540]>>

PlanBodies ==
    [selected_crop : {Absent, Str(<<>>), Str(<<"tamr">>), Str(<<"battikh">>),
                      Str(<<" ", "tamr">>), Str(<<"RED">>)},
     area_sqm : {Absent, NumF(Int2Num(5000)), Str(<<"abc">>)},
     soil_type : {Absent, Str(<<"Black_Soil">>)},
     location_name : {Str(<<"FIELD">>)},
     recommendations : {Absent, List(SampleRecommendations)}]

\* the small set of analyze_soil bodies a remembering client sends
ProbeSoilBodies ==
    [image_path : ImagePaths,
     area_sqm : {Absent},
     prev_crops_str : {Absent},
     farmer_pref : {Str(<<"high_profit">>), Str(<<"improve_efficiency">>)},
     desired_crop : {Absent, Str(<<"tamr">>)}]

ProbeHistoricalBodies ==
    {b \in HistoricalBodies :
        /\ b.crop = Absent
        /\ b.actual_water \in {NumF(Int2Num(0)), NumF(Int2Num(1000))}
        /\ b.area_sqm \in {Absent, NumF(Int2Num(0))}
        /\ b.actual_yield.t = "num"}

---------------------------------------------------------------------------
(* Specifications                                                          *)

Init ==
    /\ GLOBAL_HISTORICAL_ANALYSIS = NoneVal
    /\ request = NoneVal
    /\ response = NoneVal
    /\ lastOk = NoneVal
    /\ seen = NoneVal

AnalyzeSoil == \E data \in SoilBodies : api_analyze_soil(data)
GeneratePlan == \E data \in PlanBodies : api_generate_plan(data)
AnalyzeHistorical == \E data \in HistoricalBodies : api_analyze_historical(data)

Next == AnalyzeSoil \/ GeneratePlan \/ AnalyzeHistorical \/ Deliver

Spec == Init /\ [][Next]_vars

ProbeSoil == \E data \in ProbeSoilBodies : api_analyze_soil(data)
ProbeHistorical == \E data \in ProbeHistoricalBodies : api_analyze_historical(data)

NextObserved == ProbeSoil \/ ProbeHistorical \/ Observe \/ Deliver

SpecObserved == Init /\ [][NextObserved]_vars

---------------------------------------------------------------------------
(* Properties                                                              *)

Answered(endpoint) == ~Idle /\ request.endpoint = endpoint
AnsweredOk(endpoint) == Answered(endpoint) /\ response.status = 200
IsError(resp, status) ==
    resp.status = status /\ "error" \in DOMAIN resp.body /\ DOMAIN resp.body = {"error"}

Recs == response.body.recommendations
ScoreOf(recs, crop) == recs[CHOOSE i \in 1..Len(recs) : recs[i].crop = crop].score
CatalogIndex(crop) == CHOOSE i \in 1..Len(CropOrder) : CropOrder[i] = crop

\* the arguments the answered analyze_soil request gave the scorer
ReqPrevCrops == ParsePrevCrops(GetStr(request.data.prev_crops_str, <<>>))
ReqPref == GetStr(request.data.farmer_pref, <<"none">>)
ReqDesired == GetStr(request.data.desired_crop, <<>>)

\* C1: every analyze_soil answer gives each of the 9 catalog crops a score
\* between 0 and 100 (scores are in tenths), whatever the slot holds.
C1_ScoreInRange ==
    AnsweredOk("analyze_soil") =>
        \A c \in Crops :
            \E i \in 1..Len(Recs) :
                Recs[i].crop = c /\ 0 <= Recs[i].score /\ Recs[i].score <= 1000

\* C1 witness: scored against a non-empty slot, one crop clamped at 100 and
\* another left below it
C1_Witness ==
    /\ AnsweredOk("analyze_soil")
    /\ GLOBAL_HISTORICAL_ANALYSIS # NoneVal
    /\ \E i, j \in 1..Len(Recs) : Recs[i].score = 1000 /\ Recs[j].score < 1000

\* a field that is a number and is <= 0
NonPositive(field) == field.t = "num" /\ Le(field.num, Zero)

\* a field float() accepts: absent (the default is used) or a float
Parses(field) == field.t \in {"absent", "num"} \/ field.str \in {<<"nan">>, <<"inf">>}

\* the step is a handler answering an analyze_historical request whose
\* actual_water or actual_yield is <= 0
RejectedHistoricalStep ==
    /\ Idle
    /\ response' # NoneVal
    /\ request'.endpoint = "analyze_historical"
    /\ NonPositive(request'.data.actual_water) \/ NonPositive(request'.data.actual_yield)

\* C2 as stated: such a request is answered 400 with an error field, without
\* an analysis, and the slot is left as it was.
C2_Original ==
    [][RejectedHistoricalStep =>
          /\ IsError(response', 400)
          /\ GLOBAL_HISTORICAL_ANALYSIS' = GLOBAL_HISTORICAL_ANALYSIS]_vars

\* C2 amended: such a request is answered with an error field only and the
\* slot is left as it was; the status is 400 when actual_yield, area_sqm and
\* actual_water all parse, and 500 when one of them does not.
C2_Amended ==
    [][RejectedHistoricalStep =>
          /\ GLOBAL_HISTORICAL_ANALYSIS' = GLOBAL_HISTORICAL_ANALYSIS
          /\ IF Parses(request'.data.actual_yield) /\ Parses(request'.data.area_sqm)
                   /\ Parses(request'.data.actual_water)
             THEN IsError(response', 400)
             ELSE IsError(response', 500)]_vars

\* C2 witness: a request with actual_yield = 0 and a positive actual_water
\* was answered 400 while the slot held an analysis
C2_Witness ==
    /\ Answered("analyze_historical")
    /\ GLOBAL_HISTORICAL_ANALYSIS # NoneVal
    /\ NonPositive(request.data.actual_yield)
    /\ request.data.actual_water = NumF(Int2Num(1000))
    /\ IsError(response, 400)

\* selected_crop is missing, empty or not the name of a catalog crop
NoCatalogCrop(selected_crop) ==
    \/ selected_crop = Absent
    \/ selected_crop \notin {Str(<<c>>) : c \in Crops}

DesiredIs(X) == ReqDesired # <<>> /\ Strip(Lower(ReqDesired)) = <<X>>

\* X's base_score in the answered request before the desired-crop bonus
BaseBeforeDesired(X) ==
    ApplyRotation(
        ApplyPreference(Mul(BaseScore(X), SOIL_BONUS(response.body.soil_type, X)),
                        X, ReqPref, GLOBAL_HISTORICAL_ANALYSIS),
        X, ReqPrevCrops)

\* X's score in the otherwise-identical call without desired_crop
ScoreWithoutDesired(X) ==
    CropScore(X, response.body.soil_type, ReqPrevCrops, ReqPref, <<>>,
              GLOBAL_HISTORICAL_ANALYSIS)

\* C4 as stated: with base score > 0, desired_crop = X gives X a strictly
\* higher score than the same call without desired_crop.
C4_Original ==
    \A X \in Crops :
        (AnsweredOk("analyze_soil") /\ DesiredIs(X) /\ Gt(BaseBeforeDesired(X), Zero)) =>
            ScoreOf(Recs, X) > ScoreWithoutDesired(X)

\* C4 amended: with base score > 0, desired_crop = X gives X a strictly higher
\* score when X's score without desired_crop is between 10.4 and 99.9; when
\* that score is already 100 both calls give 100.
C4_Amended ==
    \A X \in Crops :
        (AnsweredOk("analyze_soil") /\ DesiredIs(X) /\ Gt(BaseBeforeDesired(X), Zero)) =>
            /\ (104 <= ScoreWithoutDesired(X) /\ ScoreWithoutDesired(X) <= 999) =>
                   ScoreOf(Recs, X) > ScoreWithoutDesired(X)
            /\ ScoreWithoutDesired(X) = 1000 => ScoreOf(Recs, X) = 1000

\* C4 witness: the desired crop scored below 100 without the bonus and is
\* clamped at 100 with it
C4_Witness ==
    \E X \in Crops :
        /\ AnsweredOk("analyze_soil")
        /\ DesiredIs(X)
        /\ Gt(BaseBeforeDesired(X), Zero)
        /\ ScoreWithoutDesired(X) <= 999
        /\ ScoreOf(Recs, X) = 1000

\* prev_crops_str lists crop X: a comma-separated piece is X once trimmed
ListsCrop(prev_crops_str, X) ==
    \E piece \in SeqToSet(Split(prev_crops_str, ",")) : Strip(piece) = <<X>>

\* X's score in the otherwise-identical call whose prior-crop list omits X
ScoreWithoutListing(X) ==
    CropScore(X, response.body.soil_type,
              SelectSeq(ReqPrevCrops, LAMBDA piece : piece # <<X>>),
              ReqPref, ReqDesired, GLOBAL_HISTORICAL_ANALYSIS)

ListedCropAnswered(X) ==
    /\ AnsweredOk("analyze_soil")
    /\ ListsCrop(GetStr(request.data.prev_crops_str, <<>>), X)

\* C5 as stated: listing X in prev_crops_str gives X a strictly lower score
\* than the same call with X omitted.
C5_Original ==
    \A X \in Crops :
        ListedCropAnswered(X) => ScoreOf(Recs, X) < ScoreWithoutListing(X)

\* C5 amended: listing X gives X a strictly lower score when X's score with X
\* omitted is at least 10.6 and X's score with X listed is below 100.
C5_Amended ==
    \A X \in Crops :
        (ListedCropAnswered(X) /\ ScoreWithoutListing(X) >= 106 /\ ScoreOf(Recs, X) <= 999) =>
            ScoreOf(Recs, X) < ScoreWithoutListing(X)

\* C5 witness: a listed crop (written with blanks around it) that is also the
\* desired crop: 100 when omitted, lower when listed
C5_Witness ==
    \E X \in Crops :
        /\ ListedCropAnswered(X)
        /\ request.data.prev_crops_str # Str(<<X>>)
        /\ ScoreWithoutListing(X) = 1000
        /\ ScoreOf(Recs, X) <= 999

\* C6: the list holds each catalog crop exactly once, scores never increase
\* along it, and crops with equal scores keep their catalog order.
C6_RankedList ==
    AnsweredOk("analyze_soil") =>
        /\ Len(Recs) = Cardinality(Crops)
        /\ \A c \in Crops : Cardinality({i \in 1..Len(Recs) : Recs[i].crop = c}) = 1
        /\ \A i, j \in 1..Len(Recs) :
              i < j =>
                  /\ Recs[i].score >= Recs[j].score
                  /\ Recs[i].score = Recs[j].score =>
                         CatalogIndex(Recs[i].crop) < CatalogIndex(Recs[j].crop)

\* C6 witness: a list with two crops of equal score and others of different
\* score
C6_Witness ==
    /\ AnsweredOk("analyze_soil")
    /\ \E i, j \in 1..Len(Recs) : i < j /\ Recs[i].score = Recs[j].score
    /\ \E i, j \in 1..Len(Recs) : Recs[i].score > Recs[j].score

\* the answered analyze_soil request repeats the remembered one: same
\* area_sqm, prev_crops_str, farmer_pref and desired_crop, same soil type
RepeatsSeen ==
    /\ seen # NoneVal
    /\ AnsweredOk("analyze_soil")
    /\ seen.response.status = 200
    /\ seen.request.data.area_sqm = request.data.area_sqm
    /\ seen.request.data.prev_crops_str = request.data.prev_crops_str
    /\ seen.request.data.farmer_pref = request.data.farmer_pref
    /\ seen.request.data.desired_crop = request.data.desired_crop
    /\ seen.response.body.soil_type = response.body.soil_type

\* C7 as stated: a repeated request gets the same ranked list, whatever was
\* handled in between.
C7_Original == RepeatsSeen => Recs = seen.response.body.recommendations

\* C7 amended: a repeated request gets the same ranked list when farmer_pref
\* is not improve_efficiency, or when the slot holds the same value as when
\* the first request was answered.
C7_Amended ==
    (RepeatsSeen /\ (ReqPref # <<"improve_efficiency">>
                        \/ seen.slot = GLOBAL_HISTORICAL_ANALYSIS)) =>
        Recs = seen.response.body.recommendations

\* C7 witness: a repeated high_profit request answered after the slot changed
C7_Witness ==
    /\ RepeatsSeen
    /\ ReqPref = <<"high_profit">>
    /\ seen.slot # GLOBAL_HISTORICAL_ANALYSIS
    /\ GLOBAL_HISTORICAL_ANALYSIS # NoneVal

\* the tag the preference table gives a farmer_pref string
MappedTag(farmer_pref) ==
    IF Len(farmer_pref) = 1 /\ farmer_pref[1] \in DOMAIN PREF_OPTIONS_MAP
    THEN <<PREF_OPTIONS_MAP[farmer_pref[1]]>>
    ELSE <<"none">>

\* C8 as stated: the request is scored with the tag the preference table
\* gives its farmer_pref, and as "none" when the table has no such key.
C8_PrefMapped ==
    AnsweredOk("analyze_soil") =>
        Recs = determine_suitability(response.body.soil_type,
                                     PyFloat(request.data.area_sqm, 10000),
                                     GetStr(request.data.prev_crops_str, <<>>),
                                     MappedTag(ReqPref),
                                     ReqDesired,
                                     GLOBAL_HISTORICAL_ANALYSIS)

\* C9 as stated: the slot is empty or holds a water_efficiency_ratio > 0.
C9_RatioPositive ==
    \/ GLOBAL_HISTORICAL_ANALYSIS = NoneVal
    \/ Gt(GLOBAL_HISTORICAL_ANALYSIS.water_efficiency_ratio, Zero)

\* the analysis of one request body: yield per hectare per cubic metre
AnalysisOf(data) ==
    LET y == PyFloat(data.actual_yield, 0)
        a == PyFloat(data.area_sqm, 10000)
        w == PyFloat(data.actual_water, 1)
        ratio == Div(Mul(y, Int2Num(10000)), Mul(a, w))
    IN  [previous_crop |-> data.crop,
         water_efficiency_ratio |-> ratio,
         message |-> [crop |-> data.crop, ratio |-> FormatF(ratio, 100)]]

\* C10: the slot is empty until an analyze_historical request is answered 200
\* and then holds the analysis of the latest such request alone; every other
\* answer leaves the slot as it was.
C10_LastWriteOnly ==
    /\ [](IF lastOk = NoneVal
          THEN GLOBAL_HISTORICAL_ANALYSIS = NoneVal
          ELSE GLOBAL_HISTORICAL_ANALYSIS = AnalysisOf(lastOk))
    /\ [][/\ (response' # NoneVal /\ request'.endpoint = "analyze_historical"
                 /\ response'.status = 200) => lastOk' = request'.data
          /\ ~(response' # NoneVal /\ request'.endpoint = "analyze_historical"
                 /\ response'.status = 200) =>
                 /\ lastOk' = lastOk
                 /\ GLOBAL_HISTORICAL_ANALYSIS' = GLOBAL_HISTORICAL_ANALYSIS]_vars

\* C10 witness: an analyze_historical request failing on area_sqm = 0 was
\* answered 500 while the slot held an analysis
C10_Witness ==
    /\ Answered("analyze_historical")
    /\ response.status = 500
    /\ request.data.area_sqm = NumF(Int2Num(0))
    /\ lastOk # NoneVal
    /\ GLOBAL_HISTORICAL_ANALYSIS.water_efficiency_ratio = Int2Num(5)

===========================================================================
